---- MODULE Spec2Model ----
(***************************************************************************)
(* Model of the TwitterAPI.io webhook monitor: the standalone Flask server *)
(* (src/monitor.py) with its daily partition file, and the serverless      *)
(* variant (src/api/webhook.py).                                           *)
(*                                                                         *)
(* Python values are modelled as follows.                                  *)
(*   - a dict is a function whose DOMAIN is the set of keys present;       *)
(*   - a JSON value whose type matters to the code (the body, the tweets   *)
(*     value, a raw tweet entry, an author value) is wrapped in a record   *)
(*     with a type tag t: "obj" (d: the dict), "arr" (a: the list), "str", *)
(*     "null";                                                             *)
(*   - scalar strings are strings, PyNone stands for None, Surrogate for a *)
(*     string holding a lone UTF-16 surrogate (legal in JSON text as an    *)
(*     escape, not encodable as UTF-8);                                    *)
(*   - metric counters are naturals.                                       *)
(***************************************************************************)
EXTENDS Integers, Sequences, FiniteSets, TLC

VARIABLES today, files, req, nreq, stats, fn_in, fn_out

vars == <<today, files, req, nreq, stats, fn_in, fn_out>>

(***************************************************************************)
(* Bounds of the model.                                                    *)
(***************************************************************************)
MaxTweets == 2
MaxRequests == 2
MaxDay == 2

(***************************************************************************)
(* Python primitives.                                                      *)
(***************************************************************************)
PyNone == "<None>"
Surrogate == "<lone surrogate>"
EmptyDict == [k \in {} |-> PyNone]

Get(d, k, default) == IF k \in DOMAIN d THEN d[k] ELSE default

Obj(d) == [t |-> "obj", d |-> d]
Arr(a) == [t |-> "arr", a |-> a]
JsonNull == [t |-> "null"]
JsonStr == [t |-> "str"]

\* bool(x) of a parsed JSON value: None, {} and [] are falsy.
Truthy(v) ==
    CASE v.t = "obj" -> DOMAIN v.d # {}
      [] v.t = "arr" -> Len(v.a) > 0
      [] v.t = "str" -> TRUE
      [] OTHER -> FALSE

(***************************************************************************)
(* process_tweet_data                                                      *)
(***************************************************************************)
\* tweet.get('author', {}).get(...) raises AttributeError unless the author
\* value is a dict; tweet.get itself raises unless the entry is a dict;
\* tweet_info['text'][:100] raises TypeError when text is None.
EntryRaises(tweet) ==
    \/ tweet.t # "obj"
    \/ Get(tweet.d, "author", Obj(EmptyDict)).t # "obj"
    \/ Get(tweet.d, "text", "") = PyNone

AuthorOf(tweet) == Get(tweet.d, "author", Obj(EmptyDict)).d

RuleInfo(rule_id, rule_tag) == [rule_id |-> rule_id, rule_tag |-> rule_tag]

TweetInfo(tweet, rule_id, rule_tag) ==
    [id         |-> Get(tweet.d, "id", PyNone),
     text       |-> Get(tweet.d, "text", ""),
     author     |-> [id       |-> Get(AuthorOf(tweet), "id", PyNone),
                     username |-> Get(AuthorOf(tweet), "username", PyNone),
                     name     |-> Get(AuthorOf(tweet), "name", PyNone)],
     created_at |-> Get(tweet.d, "created_at", PyNone),
     metrics    |-> [retweet_count |-> Get(tweet.d, "retweet_count", 0),
                     like_count    |-> Get(tweet.d, "like_count", 0),
                     reply_count   |-> Get(tweet.d, "reply_count", 0)],
     rule_info  |-> RuleInfo(rule_id, rule_tag)]

\* The serverless variant stamps each record with datetime.now().isoformat();
\* clock[i] is the reading taken while the i-th entry is processed.
Stamp(info, variant, at) ==
    IF variant = "serverless"
    THEN [k \in DOMAIN info \cup {"processed_at"} |->
             IF k = "processed_at" THEN at ELSE info[k]]
    ELSE info

\* Faulty variant: the record is put in front of the list.
AppendInfo_front(acc, info) == <<info>> \o acc

\* One step of `processed_tweets.append(tweet_info)`.
AppendInfo(acc, info) == Append(acc, info)

\* The for loop: an exception at any entry leaves the loop for the except
\* clause, which returns [] (the records appended so far are discarded).
RECURSIVE TweetLoop(_, _, _, _, _, _, _)
TweetLoop(tweets, i, acc, rule_id, rule_tag, variant, clock) ==
    IF i > Len(tweets) THEN [raised |-> FALSE, value |-> acc]
    ELSE IF EntryRaises(tweets[i]) THEN [raised |-> TRUE, value |-> acc]
    ELSE TweetLoop(tweets, i + 1,
                   AppendInfo(acc, Stamp(TweetInfo(tweets[i], rule_id, rule_tag),
                                         variant, clock[i])),
                   rule_id, rule_tag, variant, clock)

\* What the except clause of process_tweet_data returns.
OnProcessError(partial) == <<>>

process_tweet_data(webhook_data, variant, clock) ==
    IF webhook_data.t # "obj" THEN OnProcessError(<<>>)
    ELSE LET d == webhook_data.d
             rule_id == Get(d, "rule_id", PyNone)
             rule_tag == Get(d, "rule_tag", PyNone)
             tweets == Get(d, "tweets", Arr(<<>>))
         IN IF tweets.t # "arr" THEN OnProcessError(<<>>)
            ELSE LET r == TweetLoop(tweets.a, 1, <<>>, rule_id, rule_tag,
                                    variant, clock)
                 IN IF r.raised THEN OnProcessError(r.value) ELSE r.value

(***************************************************************************)
(* Configuration, requests and responses.                                  *)
(***************************************************************************)
\* TWITTER_API_KEY as configured in the spec's scenario.
API_KEY == "secret123"

\* `not x` for an optional string: None and "" are falsy.
Falsy(s) == s = PyNone \/ s = ""

\* Faulty variant: the comparison with the configured key is missing.
verify_webhook_request_nocompare(api_key, variant, received_api_key) ==
    IF Falsy(received_api_key)
    THEN [ok |-> FALSE, message |-> "Missing X-API-Key header"]
    ELSE [ok |-> TRUE, message |-> "Verified"]

\* The serverless module adds the first test; the standalone process exits at
\* start-up when the key is not configured.
verify_webhook_request(api_key, variant, received_api_key) ==
    IF variant = "serverless" /\ Falsy(api_key)
    THEN [ok |-> FALSE, message |-> "API key not configured"]
    ELSE IF Falsy(received_api_key)
    THEN [ok |-> FALSE, message |-> "Missing X-API-Key header"]
    ELSE IF received_api_key # api_key
    THEN [ok |-> FALSE, message |-> "Invalid API key"]
    ELSE [ok |-> TRUE, message |-> "Verified"]

\* A request body as it arrives: no JSON body at all, a body sent as JSON that
\* does not parse, or JSON text with its parsed value.
NoBody == [t |-> "nobody"]
MalformedBody == [t |-> "malformed"]
JsonBody(v) == [t |-> "json", v |-> v]

\* request.get_json(): Flask raises BadRequest on text that does not parse;
\* with no JSON body it returns None (Flask < 2.1) or raises
\* UnsupportedMediaType (Flask >= 2.1); the repository pins neither.
get_json(body) ==
    CASE body.t = "json" -> {[raised |-> FALSE, value |-> body.v]}
      [] body.t = "malformed" -> {[raised |-> TRUE, value |-> JsonNull]}
      [] OTHER -> {[raised |-> FALSE, value |-> JsonNull],
                   [raised |-> TRUE, value |-> JsonNull]}

NoResp == [code |-> 0, body |-> EmptyDict]
Resp401 == [code |-> 401, body |-> [error |-> "Unauthorized"]]
Resp400 == [code |-> 400, body |-> [error |-> "No JSON data provided"]]

\* The serverless variant adds a timestamp to the 500 and 200 bodies.
WithTimestamp(body, variant, at) ==
    IF variant = "serverless"
    THEN [k \in DOMAIN body \cup {"timestamp"} |->
             IF k = "timestamp" THEN at ELSE body[k]]
    ELSE body

Resp500(variant, at) ==
    [code |-> 500,
     body |-> WithTimestamp([error |-> "Internal server error"], variant, at)]

RespProcessed(n, variant, at) ==
    [code |-> 200,
     body |-> WithTimestamp(
                [status |-> "success",
                 message |-> [text |-> "Processed {n} tweets", n |-> n],
                 tweets_count |-> n], variant, at)]

\* Faulty variant: the empty result answers like any other, with its count.
RespNoTweets_counted(variant, at) == RespProcessed(0, variant, at)

RespNoTweets(variant, at) ==
    [code |-> 200,
     body |-> WithTimestamp(
                [status |-> "success",
                 message |-> [text |-> "No tweets to process"]], variant, at)]

\* webhook_handler up to the point where the standalone variant calls
\* save_tweets_to_file: the set of possible results, each a response (code 0
\* when the handler goes on to save) with the locals it has set.
HandlerResults(api_key, variant, key, body, clock, at) ==
    IF ~verify_webhook_request(api_key, variant, key).ok
    THEN {[resp |-> Resp401, parsed |-> FALSE, processed |-> <<>>]}
    ELSE { IF o.raised
           THEN [resp |-> Resp500(variant, at), parsed |-> TRUE,
                 processed |-> <<>>]
           ELSE IF ~Truthy(o.value)
           THEN [resp |-> Resp400, parsed |-> TRUE, processed |-> <<>>]
           ELSE LET processed_tweets ==
                        process_tweet_data(o.value, variant, clock)
                IN IF processed_tweets # <<>>
                   THEN [resp |-> IF variant = "serverless"
                                  THEN RespProcessed(Len(processed_tweets),
                                                     variant, at)
                                  ELSE NoResp,
                         parsed |-> TRUE, processed |-> processed_tweets]
                   ELSE [resp |-> RespNoTweets(variant, at), parsed |-> TRUE,
                         processed |-> <<>>]
         : o \in get_json(body) }

(***************************************************************************)
(* save_tweets_to_file: the daily partition file.                          *)
(***************************************************************************)
\* A file is absent, empty (just truncated), partial (bytes that are not a
\* complete JSON document) or full (the JSON text of data). `by` is the
\* thread whose open descriptor made the last change, 0 once it is closed.
AbsentFile == [state |-> "absent", data |-> <<>>, by |-> 0]
EmptyBy(p) == [state |-> "empty", data |-> <<>>, by |-> p]
PartialBy(p) == [state |-> "partial", data |-> <<>>, by |-> p]
PartialFile == PartialBy(0)
FullFile(data) == [state |-> "full", data |-> data, by |-> 0]

\* Faulty variants: the new records go in front; the loaded records are
\* dropped.
Extend_front(existing_tweets, tweets) == tweets \o existing_tweets
Extend_replace(existing_tweets, tweets) == tweets

\* existing_tweets.extend(tweets)
Extend(existing_tweets, tweets) == existing_tweets \o tweets

\* open(filename, 'w') on success: the file exists and has length 0.
OpenForWrite(p, file) == EmptyBy(p)

\* json.dump(..., ensure_ascii=False) into a UTF-8 text file raises
\* UnicodeEncodeError on a lone surrogate.
Encodable(tweets) == \A i \in 1..Len(tweets) : tweets[i].text # Surrogate

\* Faulty variant: the except clause logs and re-raises.
SaveRaises_reraise(outcome) == outcome # "ok"

\* The except clause of save_tweets_to_file logs and returns: the exception
\* does not reach webhook_handler.
SaveRaises(outcome) == FALSE

\* webhook_handler after save_tweets_to_file.
HandlerAfterSave(processed_tweets, raised) ==
    IF raised THEN Resp500("standalone", PyNone)
    ELSE RespProcessed(Len(processed_tweets), "standalone", PyNone)

\* The file after the dump is complete and the descriptor closed. The writer
\* never seeks: what it has not flushed yet goes where its descriptor stands.
\*  - nobody else changed the file since this writer's last change: the
\*    complete document;
\*  - someone did, after this writer had flushed a part: the rest lands past
\*    the start of whatever is there now, which is no JSON document;
\*  - someone did, and this writer writes everything at offset 0: when the
\*    other left more bytes than this writer writes, the old tail survives.
\*    Byte lengths are not modelled, so both outcomes are possible unless the
\*    file is empty or already holds the same text.
DumpOver(p, flushed, current, combined) ==
    IF current.by = p THEN {FullFile(combined)}
    ELSE IF flushed THEN {PartialFile}
    ELSE IF current.state = "empty" \/ current = FullFile(combined)
    THEN {FullFile(combined)}
    ELSE {FullFile(combined), PartialFile}

(***************************************************************************)
(* Inputs.                                                                 *)
(***************************************************************************)
\* Well-formed raw tweet entries: the spec's scenario entry, a fully
\* populated one, one with neither author nor text nor metrics, an empty
\* object, and one whose text holds a lone surrogate.
EntryBob ==
    Obj([id |-> "1", text |-> "hi", author |-> Obj([username |-> "bob"])])
EntryFull ==
    Obj([id |-> "2", text |-> "yo",
         author |-> Obj([id |-> "u2", username |-> "al", name |-> "Al"]),
         created_at |-> "2024-01-01T00:00:00Z",
         retweet_count |-> 3, like_count |-> 1, reply_count |-> 2])
EntryBare == Obj([id |-> "3"])
EntryEmpty == Obj(EmptyDict)
EntrySurrogate == Obj([id |-> "5", text |-> Surrogate])

\* Malformed entries: not an object, author null, author not an object,
\* text null.
EntryNotObject == JsonStr
EntryAuthorNull == Obj([id |-> "6", text |-> "a", author |-> JsonNull])
EntryAuthorStr == Obj([id |-> "7", text |-> "b", author |-> JsonStr])
EntryTextNull == Obj([id |-> "8", text |-> PyNone])

WellFormedEntries ==
    {EntryBob, EntryFull, EntryBare, EntryEmpty, EntrySurrogate}
MalformedEntries ==
    {EntryNotObject, EntryAuthorNull, EntryAuthorStr, EntryTextNull}
RawEntries == WellFormedEntries \cup MalformedEntries

SeqsUpTo(S, n) == UNION {[1..k -> S] : k \in 0..n}

Payload(tweets) ==
    Obj([event_type |-> "tweet", rule_id |-> "r1", rule_tag |-> "demo",
         tweets |-> Arr(tweets)])

\* Payloads for the normalizer: every list of up to MaxTweets entries with
\* the rule fields present, the same without rule fields, and the payload
\* shapes that are not {.., tweets: [..]}.
NormPayloads ==
    {Payload(ts) : ts \in SeqsUpTo(RawEntries, MaxTweets)}
    \cup {Obj([tweets |-> Arr(ts)]) : ts \in SeqsUpTo(RawEntries, 1)}
    \cup {Obj([rule_id |-> "r1", rule_tag |-> "demo"]),
          Obj([rule_id |-> "r1", tweets |-> JsonNull]),
          Arr(<<EntryBob>>)}

\* Clock readings: constant, or advancing between entries.
Clocks == {[i \in 1..MaxTweets |-> 10 + i * tick] : tick \in 0..1}

Variants == {"standalone", "serverless"}

Keys == {PyNone, "", "wrong", API_KEY}

\* Request bodies offered to the running server.
BatchA == <<EntryBob>>
BatchB == <<EntryFull, EntryBare>>
Bodies ==
    {NoBody, MalformedBody, JsonBody(Obj(EmptyDict)), JsonBody(JsonNull),
     JsonBody(Payload(<<>>)), JsonBody(Payload(BatchA)),
     JsonBody(Payload(BatchB)), JsonBody(Payload(<<EntryBob, EntryNotObject>>)),
     JsonBody(Payload(<<EntrySurrogate>>))}

Procs == {1, 2}

(***************************************************************************)
(* The running standalone server: two request threads, the /stats reader,  *)
(* the calendar and the partition files.                                   *)
(***************************************************************************)
Idle ==
    [pc |-> "idle", seq |-> 0, key |-> PyNone, body |-> NoBody,
     parsed |-> FALSE, processed |-> <<>>, filename |-> 0,
     before |-> AbsentFile, existing |-> <<>>, flushed |-> FALSE,
     saved |-> "none", resp |-> NoResp]

StatsIdle == [pc |-> "idle", filename |-> 0, resp |-> NoResp, err |-> "none"]

NoInput == [op |-> "none"]

\* The records an earlier run of the server may have left in the first day's
\* partition.
Prior == process_tweet_data(Payload(<<EntryBare>>), "standalone",
                            [i \in 1..MaxTweets |-> 0])

Init ==
    /\ today = 1
    /\ \E f \in {AbsentFile, FullFile(Prior)} :
          files = [d \in 1..MaxDay |-> IF d = 1 THEN f ELSE AbsentFile]
    /\ req = [p \in Procs |-> Idle]
    /\ nreq = 0
    /\ stats = StatsIdle
    /\ fn_in = NoInput
    /\ fn_out = NoInput

\* No request of another thread is between its first and last step.
Serial(p) == \A q \in Procs \ {p} : req[q].pc \in {"idle", "done"}

\* POST /webhook, from the first line of webhook_handler to the response, or,
\* when there are records to save, to the os.path.exists test of
\* save_tweets_to_file (the handler's work up to there is local to the
\* thread; req[p].before records the file as the call found it).
WebhookBegin(p, key, body) ==
    /\ req[p].pc \in {"idle", "done"}
    /\ nreq < MaxRequests
    /\ nreq' = nreq + 1
    /\ \E r \in HandlerResults(API_KEY, "standalone", key, body,
                               [i \in 1..MaxTweets |-> 0], PyNone) :
          req' = [req EXCEPT ![p] =
                    [Idle EXCEPT
                       !.seq = nreq + 1, !.key = key, !.body = body,
                       !.parsed = r.parsed, !.processed = r.processed,
                       !.resp = r.resp,
                       !.filename = IF r.resp.code = 0 THEN today ELSE 0,
                       !.before = IF r.resp.code = 0 THEN files[today]
                                  ELSE AbsentFile,
                       !.pc = IF r.resp.code # 0 THEN "done"
                              ELSE IF files[today].state # "absent"
                              THEN "load" ELSE "open"]]
    /\ UNCHANGED <<today, files, stats, fn_in, fn_out>>

\* The save fails with `outcome`: the except clause logs, the handler answers.
SaveFailed(p, outcome) ==
    req' = [req EXCEPT ![p].pc = "done", ![p].saved = outcome,
                       ![p].resp = HandlerAfterSave(req[p].processed,
                                                    SaveRaises(outcome))]

\* open(filename, 'r') and json.load(f).
SaveLoad(p) ==
    /\ req[p].pc = "load"
    /\ \E fault \in BOOLEAN :
          IF fault THEN SaveFailed(p, "OSError")
          ELSE IF files[req[p].filename].state = "full"
          THEN req' = [req EXCEPT ![p].pc = "open",
                          ![p].existing = files[req[p].filename].data]
          ELSE SaveFailed(p, "JSONDecodeError")
    /\ UNCHANGED <<today, files, nreq, stats, fn_in, fn_out>>

\* open(filename, 'w'): truncates the file, or fails and leaves it alone.
SaveOpen(p) ==
    /\ req[p].pc = "open"
    /\ \E fault \in BOOLEAN :
          IF fault
          THEN SaveFailed(p, "OSError") /\ UNCHANGED files
          ELSE /\ files' = [files EXCEPT
                             ![req[p].filename] = OpenForWrite(p, @)]
               /\ req' = [req EXCEPT ![p].pc = "dump"]
    /\ UNCHANGED <<today, nreq, stats, fn_in, fn_out>>

\* json.dump fills the file's buffer; a buffer flushed before the dump is
\* complete leaves an incomplete document on disk.
SaveFlush(p) ==
    /\ req[p].pc = "dump"
    /\ ~req[p].flushed
    /\ files' = [files EXCEPT ![req[p].filename] = PartialBy(p)]
    /\ req' = [req EXCEPT ![p].flushed = TRUE]
    /\ UNCHANGED <<today, nreq, stats, fn_in, fn_out>>

\* The file once thread p has closed its descriptor without a further write.
Closed(p, file) == IF file.by = p THEN [file EXCEPT !.by = 0] ELSE file

\* json.dump and the close of the file, then the handler's response.
SaveDump(p) ==
    /\ req[p].pc = "dump"
    /\ LET fn == req[p].filename
           combined == Extend(req[p].existing, req[p].processed)
       IN IF ~Encodable(combined)
          THEN /\ files' = [files EXCEPT ![fn] = PartialFile]
               /\ SaveFailed(p, "UnicodeEncodeError")
          ELSE \E fault \in BOOLEAN :
                 IF fault
                 THEN /\ \E f \in {Closed(p, files[fn]), PartialFile} :
                            files' = [files EXCEPT ![fn] = f]
                      /\ SaveFailed(p, "OSError")
                 ELSE /\ \E f \in DumpOver(p, req[p].flushed, files[fn],
                                           combined) :
                            files' = [files EXCEPT ![fn] = f]
                      /\ req' = [req EXCEPT
                                   ![p].pc = "done", ![p].saved = "ok",
                                   ![p].resp = HandlerAfterSave(
                                                  req[p].processed, FALSE)]
    /\ UNCHANGED <<today, nreq, stats, fn_in, fn_out>>

\* GET /stats up to the os.path.exists test.
StatsBegin ==
    /\ stats.pc = "idle"
    /\ stats' = IF files[today].state = "absent"
                THEN [StatsIdle EXCEPT
                        !.resp = [code |-> 200,
                                  body |-> [tweets_today |-> 0,
                                            message |-> "No tweets received today"]]]
                ELSE [StatsIdle EXCEPT !.pc = "load", !.filename = today]
    /\ UNCHANGED <<today, files, req, nreq, fn_in, fn_out>>

\* GET /stats: open, json.load and the response.
StatsLoad ==
    /\ stats.pc = "load"
    /\ \E fault \in BOOLEAN :
         LET f == files[stats.filename]
             e == IF fault THEN "OSError"
                  ELSE IF f.state = "full" THEN "none" ELSE "JSONDecodeError"
         IN stats' = [stats EXCEPT
                        !.pc = "idle", !.err = e,
                        !.resp = IF e = "none"
                                 THEN [code |-> 200,
                                       body |-> [tweets_today |-> Len(f.data),
                                                 file |-> stats.filename]]
                                 ELSE [code |-> 500,
                                       body |-> [error |-> "Error retrieving stats"]]]
    /\ UNCHANGED <<today, files, req, nreq, fn_in, fn_out>>

\* The calendar date changes.
Midnight ==
    /\ today < MaxDay
    /\ today' = today + 1
    /\ UNCHANGED <<files, req, nreq, stats, fn_in, fn_out>>

\* Two request threads, under the requests that reach
\* the file or are refused before it.
ConcKeys == {"wrong", API_KEY}
ConcBodies ==
    {JsonBody(Payload(BatchA)), JsonBody(Payload(BatchB)),
     JsonBody(Payload(<<EntrySurrogate>>))}

Next ==
    \/ \E p \in Procs, key \in ConcKeys, body \in ConcBodies :
          WebhookBegin(p, key, body)
    \/ \E p \in Procs : SaveLoad(p)
    \/ \E p \in Procs : SaveOpen(p)
    \/ \E p \in Procs : SaveFlush(p)
    \/ \E p \in Procs : SaveDump(p)
    \/ Midnight

Spec == Init /\ [][Next]_vars

\* The same server with the requests arriving one after the other: a request
\* begins only when no other is in progress.
NextSeq ==
    \/ \E p \in Procs, key \in ConcKeys, body \in ConcBodies :
          Serial(p) /\ WebhookBegin(p, key, body)
    \/ \E p \in Procs : SaveLoad(p)
    \/ \E p \in Procs : SaveOpen(p)
    \/ \E p \in Procs : SaveFlush(p)
    \/ \E p \in Procs : SaveDump(p)
    \/ Midnight

SpecSeq == Init /\ [][NextSeq]_vars

\* One request thread and the /stats reader, under every key and body.
NextOne ==
    \/ \E key \in Keys, body \in Bodies : WebhookBegin(1, key, body)
    \/ SaveLoad(1)
    \/ SaveOpen(1)
    \/ SaveFlush(1)
    \/ SaveDump(1)
    \/ StatsBegin
    \/ StatsLoad
    \/ Midnight

SpecOne == Init /\ [][NextOne]_vars

(***************************************************************************)
(* The functions on their own: process_tweet_data of either variant, and   *)
(* the serverless webhook_handler, which touches no shared state.          *)
(***************************************************************************)
NormInputs ==
    {[op |-> "normalize", variant |-> v, payload |-> w, clock |-> c] :
        v \in Variants, w \in NormPayloads, c \in Clocks}

\* The serverless deployment may run with no key configured.
ServerlessInputs ==
    {[op |-> "request", api_key |-> a, key |-> k, body |-> b, clock |-> c] :
        a \in {PyNone, API_KEY}, k \in Keys, b \in Bodies, c \in Clocks}

InitFn ==
    /\ today = 1
    /\ files = [d \in 1..MaxDay |-> AbsentFile]
    /\ req = [p \in Procs |-> Idle]
    /\ nreq = 0
    /\ stats = StatsIdle
    /\ fn_in \in NormInputs \cup ServerlessInputs
    /\ fn_out = NoInput

Normalize ==
    /\ fn_in.op = "normalize"
    /\ fn_out = NoInput
    /\ fn_out' = [op |-> "normalize",
                  tweets |-> process_tweet_data(fn_in.payload, fn_in.variant,
                                                fn_in.clock)]
    /\ UNCHANGED <<today, files, req, nreq, stats, fn_in>>

\* POST /api/webhook
ServerlessWebhook ==
    /\ fn_in.op = "request"
    /\ fn_out = NoInput
    /\ \E r \in HandlerResults(fn_in.api_key, "serverless", fn_in.key,
                               fn_in.body, fn_in.clock,
                               fn_in.clock[MaxTweets] + 1) :
          fn_out' = [op |-> "request", resp |-> r.resp, parsed |-> r.parsed,
                     processed |-> r.processed]
    /\ UNCHANGED <<today, files, req, nreq, stats, fn_in>>

NextFn == Normalize \/ ServerlessWebhook

SpecNorm == InitFn /\ [][NextFn]_vars

(***************************************************************************)
(* Properties.                                                             *)
(***************************************************************************)
Done(p) == req[p].pc = "done"
KeyOk(p) == req[p].key = API_KEY

\* A request whose X-API-Key is absent or differs from the secret is answered
\* 401 and nothing else happens: the body is not parsed, nothing is
\* normalized, save_tweets_to_file is not entered, whatever the body.
C1_Refused ==
    \A p \in Procs :
        (Done(p) /\ ~KeyOk(p)) =>
            /\ req[p].resp = Resp401
            /\ ~req[p].parsed
            /\ req[p].processed = <<>>
            /\ req[p].filename = 0
            /\ req[p].saved = "none"

C1_FilesKept ==
    \A p \in Procs :
        (req'[p] # req[p] /\ req'[p].pc = "done" /\ req'[p].key # API_KEY)
            => files' = files

\* C1: every unauthorized request is refused with 401 before anything else
\* runs (C1_Refused, in every state), and the step that answers it leaves the
\* partition files unchanged (C1_FilesKept, in every step).
C1_Unauthorized == [](C1_Refused) /\ [][C1_FilesKept]_vars

C1_Witness ==
    \E p \in Procs :
        /\ Done(p) /\ req[p].key = "wrong" /\ req[p].body = MalformedBody
        /\ req[p].resp.code = 401
        /\ files[1].state = "full"

\* C2 (as claimed): a request with the correct key and an absent, non-JSON
\* or malformed body is answered 400, and the partition is not touched.
C2_BadBodyIs400 ==
    \A p \in Procs :
        (Done(p) /\ KeyOk(p) /\ req[p].body.t \in {"nobody", "malformed"}) =>
            /\ req[p].resp.code = 400
            /\ req[p].filename = 0

ZeroTweets(body) ==
    /\ body.t = "json"
    /\ body.v.t = "obj"
    /\ Get(body.v.d, "tweets", Arr(<<>>)) = Arr(<<>>)

\* C3 (as claimed): correct key and a valid JSON body carrying zero tweets
\* give 200 with tweets_count 0 in the response body.
C3_ZeroTweetsCount ==
    \A p \in Procs :
        (Done(p) /\ KeyOk(p) /\ ZeroTweets(req[p].body)) =>
            /\ req[p].resp.code = 200
            /\ "tweets_count" \in DOMAIN req[p].resp.body
            /\ req[p].resp.body.tweets_count = 0

\* C3 (amended): correct key and a JSON object carrying zero tweets give, when
\* the object is not empty, 200 with status success, the message "No tweets
\* to process" and no tweets_count field; the empty object {} gives 400.
C3_ZeroTweetsNoCount ==
    \A p \in Procs :
        (Done(p) /\ KeyOk(p) /\ ZeroTweets(req[p].body)) =>
            IF DOMAIN req[p].body.v.d # {}
            THEN /\ req[p].resp.code = 200
                 /\ req[p].resp.body.status = "success"
                 /\ req[p].resp.body.message.text = "No tweets to process"
                 /\ "tweets_count" \notin DOMAIN req[p].resp.body
            ELSE req[p].resp.code = 400

C3_Witness ==
    \E p \in Procs :
        /\ Done(p) /\ KeyOk(p) /\ req[p].body = JsonBody(Payload(<<>>))
        /\ req[p].resp.code = 200

SavedOk(p) == Done(p) /\ req[p].saved = "ok"

\* C4: two appends on the same day, one after the other, with no other writer
\* and no error, leave the partition equal to its prior contents, then the
\* records of the first batch, then those of the second.
C4_AppendTwice ==
    \A p \in Procs : \A q \in Procs \ {p} :
        (/\ SavedOk(p) /\ SavedOk(q)
         /\ req[p].filename = req[q].filename
         /\ req[q].seq = req[p].seq + 1
         /\ req[q].seq = nreq)
        => files[req[q].filename] =
             FullFile(req[p].before.data \o req[p].processed \o req[q].processed)

C4_Witness ==
    \E p \in Procs : \E q \in Procs \ {p} :
        /\ SavedOk(p) /\ SavedOk(q)
        /\ req[p].filename = req[q].filename
        /\ req[q].seq = req[p].seq + 1
        /\ req[p].before = FullFile(Prior)
        /\ Len(req[p].processed) = 1 /\ Len(req[q].processed) = 2
        /\ Len(files[req[q].filename].data) = 4

\* Both requests have answered 200 after loading the same snapshot of the same
\* day's partition.
Overlapped(p, q) ==
    /\ SavedOk(p) /\ SavedOk(q)
    /\ req[p].resp.code = 200 /\ req[q].resp.code = 200
    /\ req[p].filename = req[q].filename
    /\ req[p].existing = req[q].existing

\* C5: no lock protects the read-then-rewrite: when two requests overlap, the
\* file ends as what one of them wrote (its snapshot followed by its own
\* batch), never the merge of both batches; or as bytes that do not parse.
C5_LastWriterWins ==
    \A p \in Procs : \A q \in Procs \ {p} :
        Overlapped(p, q) =>
            files[req[p].filename] \in
                {FullFile(req[p].existing \o req[p].processed),
                 FullFile(req[q].existing \o req[q].processed),
                 PartialFile}

\* The lost update: both answered 200 and the partition holds the snapshot
\* and the records of one batch only.
C5_Witness ==
    \E p \in Procs : \E q \in Procs \ {p} :
        /\ Overlapped(p, q)
        /\ req[p].existing = Prior
        /\ req[p].processed # req[q].processed
        /\ req[p].resp.body.tweets_count = Len(req[p].processed)
        /\ files[req[p].filename] =
              FullFile(req[q].existing \o req[q].processed)

\* C6 (as claimed): a reader of the partition sees the full contents before
\* or after an append. Stated for the first append, before it has ended:
\* GET /stats does not fail to parse the file.
C6_AtomicReplace ==
    (nreq = 1 /\ \A p \in Procs : req[p].saved = "none")
        => stats.err # "JSONDecodeError"

\* C7 (as claimed): an append that fails leaves the partition as the call
\* found it. Stated for the latest request of a server that takes its
\* requests one after the other.
C7_FailedAppendNoOp ==
    \A p \in Procs :
        (Done(p) /\ req[p].saved \notin {"none", "ok"} /\ req[p].seq = nreq)
            => files[req[p].filename] = req[p].before

\* A raw entry as the data model describes it: an object whose author, when
\* present, is an object and whose text, when present, is a string.
ValidEntry(e) ==
    /\ e.t = "obj"
    /\ "author" \in DOMAIN e.d => e.d.author.t = "obj"
    /\ "text" \in DOMAIN e.d => e.d.text # PyNone

HasTweetList(w) ==
    /\ w.t = "obj"
    /\ "tweets" \in DOMAIN w.d => w.d.tweets.t = "arr"

RawTweets(w) == Get(w.d, "tweets", Arr(<<>>)).a

ValidPayload(w) ==
    /\ HasTweetList(w)
    /\ \A i \in 1..Len(RawTweets(w)) : ValidEntry(RawTweets(w)[i])

NoAuthor == [id |-> PyNone, username |-> PyNone, name |-> PyNone]
ZeroMetrics == [retweet_count |-> 0, like_count |-> 0, reply_count |-> 0]

\* C8: a valid payload with N raw entries yields N records, the i-th from the
\* i-th entry, each with the payload's rule_id and rule_tag; no author key
\* gives an author with all three fields absent, no metric field gives 0,0,0.
C8_Normalize ==
    (fn_out.op = "normalize" /\ ValidPayload(fn_in.payload)) =>
        LET ts == RawTweets(fn_in.payload)
            out == fn_out.tweets
        IN /\ Len(out) = Len(ts)
           /\ \A i \in 1..Len(ts) :
                /\ out[i].id = Get(ts[i].d, "id", PyNone)
                /\ out[i].text = Get(ts[i].d, "text", "")
                /\ out[i].created_at = Get(ts[i].d, "created_at", PyNone)
                /\ out[i].rule_info.rule_id =
                       Get(fn_in.payload.d, "rule_id", PyNone)
                /\ out[i].rule_info.rule_tag =
                       Get(fn_in.payload.d, "rule_tag", PyNone)
                /\ "author" \notin DOMAIN ts[i].d => out[i].author = NoAuthor
                /\ DOMAIN ts[i].d \cap DOMAIN ZeroMetrics = {}
                       => out[i].metrics = ZeroMetrics

C8_Witness ==
    /\ fn_out.op = "normalize"
    /\ fn_in.payload = Payload(<<EntryFull, EntryBare>>)
    /\ Len(fn_out.tweets) = 2
    /\ fn_out.tweets[1].metrics.retweet_count = 3
    /\ fn_out.tweets[2].id = "3"
    /\ fn_out.tweets[2].author = NoAuthor
    /\ fn_out.tweets[2].metrics = ZeroMetrics

\* C9 (as claimed): a malformed entry does not keep the well-formed entries
\* of the same batch from being normalized and returned.
C9_MalformedEntryIsolated ==
    (fn_out.op = "normalize" /\ HasTweetList(fn_in.payload)) =>
        \A i \in 1..Len(RawTweets(fn_in.payload)) :
            ValidEntry(RawTweets(fn_in.payload)[i]) =>
                \E j \in 1..Len(fn_out.tweets) :
                    /\ fn_out.tweets[j].id =
                           Get(RawTweets(fn_in.payload)[i].d, "id", PyNone)
                    /\ fn_out.tweets[j].text =
                           Get(RawTweets(fn_in.payload)[i].d, "text", "")

SaveFailedFor(p) ==
    Done(p) /\ req[p].processed # <<>> /\ req[p].saved \notin {"none", "ok"}

\* C10: when N > 0 records were normalized and the append failed, the request
\* is still answered 200 with status success and tweets_count N.
C10_FailureHidden ==
    \A p \in Procs :
        SaveFailedFor(p) =>
            /\ req[p].resp.code = 200
            /\ req[p].resp.body.status = "success"
            /\ req[p].resp.body.tweets_count = Len(req[p].processed)

\* A 200 with tweets_count 2 while the partition still holds the prior
\* record only.
C10_Witness ==
    \E p \in Procs :
        /\ SaveFailedFor(p)
        /\ req[p].resp.code = 200
        /\ req[p].resp.body.tweets_count = 2
        /\ files[req[p].filename] = FullFile(Prior)

====
